---- MODULE Spec2Model ----
(***************************************************************************)
(* One launch of DDPSpawnLauncher / TPUSpawnLauncher                       *)
(* (pytorch_lightning/strategies/launchers/ddp_spawn.py, tpu_spawn.py):    *)
(* the orchestrator process that calls launch, the num_processes workers   *)
(* that run _wrapped_function, the return_queue between them, the          *)
(* temporary checkpoint file and the orchestrator's live trainer.          *)
(***************************************************************************)
EXTENDS Integers, Sequences, FiniteSets, TLC

\* ------------------------------------------------------------- bounds
MaxProcs == 2      \* num_processes ranges over 1..MaxProcs
MaxNode == 1       \* node_rank ranges over 0..MaxNode
MaxLegacy == 2     \* entries a legacy add_to_queue appends / get_from_queue pops
MaxVal == 1        \* numbers held by the metrics of a round trip range over 1..MaxVal

VARIABLES
    launcher,        \* "ddp" (DDPSpawnLauncher) or "tpu" (TPUSpawnLauncher)
    num_processes,   \* strategy.num_processes / nprocs
    node_rank,       \* rank of the node this launch runs on
    has_trainer,     \* kwargs carries a trainer (orchestrator context)
    fitting,         \* trainer.state.fn == TrainerFn.FITTING
    has_ckpt_cb,     \* trainer.checkpoint_callback is set
    fn_device,       \* device on which the user function leaves its tensors
    env_master_port, \* os.environ["MASTER_PORT"]
    pc,              \* pc[i]: position of worker i in _wrapped_function
    local_rank,      \* strategy.local_rank in worker i (-1 before setup)
    global_rank,     \* strategy.global_rank in worker i (-1 before setup)
    results,         \* local variable `results` of worker i
    weights_path,    \* local variable `weights_path` of worker i
    sd_count,        \* state_dict() calls made by worker i
    save_count,      \* save_checkpoint calls made by worker i
    built,           \* what _collect_rank_zero_results returned in worker i
    return_queue,    \* the SimpleQueue of the launch
    put_log,         \* process indices that have put, in order
    temp_ckpt,       \* content of <default_root_dir>/.temp.ckpt
    opc,             \* position of the orchestrator in launch
    spawn_output,    \* local variable `spawn_output` of launch
    retval,          \* value launch returned
    error,           \* exception launch raised
    trainer,         \* the orchestrator's live trainer
    legacy_added,    \* entries the overridden add_to_queue appended
    legacy_popped,   \* entries the overridden get_from_queue popped
    add_overridden,  \* is_overridden("add_to_queue", lightning_module)
    get_overridden,  \* is_overridden("get_from_queue", lightning_module)
    rt_pc,           \* round trip of the default pair: "off", "start", "added", "got"
    rt_metrics,      \* round trip: trainer.callback_metrics given to add_to_queue
    rt_prev,         \* round trip: trainer.callback_metrics before get_from_queue
    rt_queue,        \* round trip: the _FakeQueue
    rt_out           \* round trip: trainer.callback_metrics after get_from_queue

wvars == <<pc, local_rank, global_rank, results, weights_path, sd_count, save_count, built>>
cvars == <<launcher, num_processes, node_rank, has_trainer, fitting, has_ckpt_cb, fn_device>>
ovars == <<opc, spawn_output, retval, error, trainer>>
hvars == <<legacy_added, legacy_popped, add_overridden, get_overridden>>
rtvars == <<rt_pc, rt_metrics, rt_prev, rt_queue, rt_out>>
vars == <<rtvars, cvars, env_master_port, wvars, return_queue, put_log, temp_ckpt, ovars, hvars>>

Procs == 0 .. (MaxProcs - 1)
Workers == 0 .. (num_processes - 1)

\* ------------------------------------------------------------- values
None == [kind |-> "None"]
Absent == [kind |-> "absent"]
TempPath == [kind |-> "path", name |-> ".temp.ckpt"]
Tensor(dev, v) == [kind |-> "tensor", dev |-> dev, val |-> v]
NdArray(v) == [kind |-> "ndarray", dev |-> "cpu", val |-> v]
Float(v) == [kind |-> "float", dev |-> "cpu", val |-> v]

\* apply_to_collection(x, torch.Tensor, lambda x: x.cpu().numpy()) on one value
to_numpy(v) == IF v.kind = "tensor" THEN NdArray(v.val) ELSE v
\* mutant: the arrays are not cast back
to_tensor_skipped(v) == v
\* apply_to_collection(x, np.ndarray, lambda x: torch.tensor(x)) on one value
to_tensor(v) == IF v.kind = "ndarray" THEN Tensor("cpu", v.val) ELSE v
\* apply_to_collection over a mapping: every value converted, the keys kept
to_numpy_dict(d) == [k \in DOMAIN d |-> to_numpy(d[k])]
to_tensor_dict(d) == [k \in DOMAIN d |-> to_tensor(d[k])]
\* mutant: the entries already in d1 are kept (setdefault instead of update)
dict_update_keep(d1, d2) == [k \in (DOMAIN d1) \cup (DOMAIN d2) |-> IF k \in DOMAIN d1 THEN d1[k] ELSE d2[k]]
\* dict.update: the entries of d2 overwrite the same-keyed entries of d1
dict_update(d1, d2) == [k \in (DOMAIN d1) \cup (DOMAIN d2) |-> IF k \in DOMAIN d2 THEN d2[k] ELSE d1[k]]

\* move_data_to_device(x, "cpu") on one value
move_value(v) == IF v.kind = "tensor" THEN Tensor("cpu", v.val) ELSE v
\* move_data_to_device(results, "cpu"): recurses into the _SpawnOutput tuple
move_data_to_device(x) ==
    IF x.kind = "SpawnOutput"
    THEN [x EXCEPT !.trainer_results = move_value(@),
                   !.extra = [n \in DOMAIN @ |-> [@[n] EXCEPT !.dict = [k \in DOMAIN @ |-> move_value(@[k])]]]]
    ELSE move_value(x)

\* ----------------------------------------------- the worker's side of the run
\* what function(*args, **kwargs) returns in worker i
UserResult(i) == Tensor(fn_device, i + 1)
\* trainer.callback_metrics in worker i once the function has run
WorkerMetrics(i) ==
    ("acc" :> Tensor(fn_device, 10 + i)) @@ ("loss" :> Float(20 + i)) @@ ("arr" :> NdArray(30 + i))
\* trainer.state in a worker once the function has run
WorkerState == [fn |-> IF fitting THEN "fitting" ELSE "testing", status |-> "finished"]
\* trainer.checkpoint_callback.best_model_path in a worker
WorkerBestPath == [kind |-> "path", name |-> "best.ckpt"]
\* trainer.lightning_module.state_dict() in a worker
WorkerStateDict == [kind |-> "state_dict", version |-> "trained"]

\* ----------------------------------------------- the orchestrator's trainer
InitialTrainer ==
    [best_model_path |-> IF has_ckpt_cb THEN [kind |-> "path", name |-> ""] ELSE None,
     params |-> [kind |-> "state_dict", version |-> "initial"],
     state |-> [fn |-> IF fitting THEN "fitting" ELSE "testing", status |-> "running"],
     callback_metrics |-> ("acc" :> Float(0)) @@ ("old" :> Float(1))]

\* ----------------------------------------------- _FakeQueue
\* _FakeQueue.put
FakeQueue_put(q, item) == Append(q, item)
\* _FakeQueue.get on a non-empty queue: the item and the rest
FakeQueue_head(q) == Head(q)
\* mutant: get reads the first item and leaves it in the list
FakeQueue_rest_peek(q) == q
FakeQueue_rest(q) == Tail(q)
\* _FakeQueue.empty
FakeQueue_empty(q) == Len(q) = 0

\* an entry a legacy add_to_queue override puts: a mapping or some other object
LegacyEntry(is_dict, n) ==
    [origin |-> "legacy", is_dict |-> is_dict,
     dict |-> IF is_dict THEN ("legacy" :> Float(n)) ELSE ("scalar" :> Float(n))]
\* DDPSpawnLauncher.add_to_queue: the metrics as numpy, appended
add_to_queue(metrics, queue) ==
    FakeQueue_put(queue, [origin |-> "default", is_dict |-> TRUE, dict |-> to_numpy_dict(metrics)])

\* the state of a launch that has not started
LaunchIdle ==
    /\ env_master_port = "unset"
    /\ pc = [i \in Procs |-> "not_started"]
    /\ local_rank = [i \in Procs |-> -1]
    /\ global_rank = [i \in Procs |-> -1]
    /\ results = [i \in Procs |-> None]
    /\ weights_path = [i \in Procs |-> None]
    /\ sd_count = [i \in Procs |-> 0]
    /\ save_count = [i \in Procs |-> 0]
    /\ built = [i \in Procs |-> "not_called"]
    /\ return_queue = <<>>
    /\ put_log = <<>>
    /\ temp_ckpt = Absent
    /\ opc = "idle"
    /\ spawn_output = None
    /\ retval = None
    /\ error = "none"
    /\ trainer = InitialTrainer
    /\ legacy_added = 0
    /\ legacy_popped = 0
    /\ add_overridden = FALSE
    /\ get_overridden = FALSE

Init ==
    /\ launcher \in {"ddp", "tpu"}
    /\ num_processes \in 1 .. MaxProcs
    /\ node_rank \in 0 .. MaxNode
    /\ has_trainer \in BOOLEAN
    /\ fitting \in BOOLEAN
    /\ has_ckpt_cb \in BOOLEAN
    /\ fn_device \in {"cpu", "cuda"}
    /\ LaunchIdle
    /\ rt_pc = "off"
    /\ rt_metrics = <<>>
    /\ rt_prev = <<>>
    /\ rt_queue = <<>>
    /\ rt_out = <<>>

\* launch up to the start of the workers (mp.spawn / xmp.spawn)
launch_start ==
    /\ opc = "idle"
    /\ opc' = "spawn"
    /\ env_master_port' = IF launcher = "ddp" THEN "main_port" ELSE env_master_port
    /\ pc' = [i \in Procs |-> IF i \in Workers THEN "setup" ELSE pc[i]]
    /\ UNCHANGED <<rtvars, cvars, local_rank, global_rank, results, weights_path, sd_count, save_count,
                   built, return_queue, put_log, temp_ckpt, spawn_output, retval, error, trainer, hvars>>

\* ----------------------------------------------- _wrapped_function, worker i
\* strategy._worker_setup(process_idx): the process index is the local rank, the
\* global rank counts the processes of the lower-ranked nodes before it
worker_setup(i) ==
    /\ pc[i] = "setup"
    /\ local_rank' = [local_rank EXCEPT ![i] = i]
    /\ global_rank' = [global_rank EXCEPT ![i] = node_rank * num_processes + i]
    /\ pc' = [pc EXCEPT ![i] = "function"]
    /\ UNCHANGED <<rtvars, cvars, env_master_port, results, weights_path, sd_count, save_count, built,
                   return_queue, put_log, temp_ckpt, ovars, hvars>>

\* mutant: _collect_rank_zero_results tests the rank before it computes state_dict
after_function_skip_state_dict == IF has_trainer THEN "rank_check" ELSE "put"
\* where _wrapped_function goes once function has returned
after_function == IF has_trainer THEN "state_dict" ELSE "put"

\* results = function(*args, **kwargs)
worker_function(i) ==
    /\ pc[i] = "function"
    /\ results' = [results EXCEPT ![i] = UserResult(i)]
    /\ pc' = [pc EXCEPT ![i] = after_function]
    /\ UNCHANGED <<rtvars, cvars, env_master_port, local_rank, global_rank, weights_path, sd_count,
                   save_count, built, return_queue, put_log, temp_ckpt, ovars, hvars>>

\* _worker_setup or function raises: the exception ends the worker process
worker_raises(i) ==
    /\ pc[i] \in {"setup", "function"}
    /\ pc' = [pc EXCEPT ![i] = "failed"]
    /\ UNCHANGED <<rtvars, cvars, env_master_port, local_rank, global_rank, results, weights_path,
                   sd_count, save_count, built, return_queue, put_log, temp_ckpt, ovars, hvars>>

\* _worker_setup or function never returns: the worker process stays alive and stuck
worker_hangs(i) ==
    /\ pc[i] \in {"setup", "function"}
    /\ pc' = [pc EXCEPT ![i] = "hung"]
    /\ UNCHANGED <<rtvars, cvars, env_master_port, local_rank, global_rank, results, weights_path,
                   sd_count, save_count, built, return_queue, put_log, temp_ckpt, ovars, hvars>>

\* ----------------------------------------------- _collect_rank_zero_results
\* mutant: the TPU launcher tests the rank before it saves, as the DDP launcher does
after_state_dict_ddp_order == "rank_check"
\* the step that follows state_dict() in each launcher
after_state_dict == IF launcher = "ddp" THEN "rank_check" ELSE "save"

\* best_model_path is read and state_dict() computed
collect_state_dict(i) ==
    /\ pc[i] = "state_dict"
    /\ sd_count' = [sd_count EXCEPT ![i] = @ + 1]
    /\ pc' = [pc EXCEPT ![i] = after_state_dict]
    /\ UNCHANGED <<rtvars, cvars, env_master_port, local_rank, global_rank, results, weights_path,
                   save_count, built, return_queue, put_log, temp_ckpt, ovars, hvars>>

\* the rank test of the DDP launcher: `trainer.strategy.global_rank != 0` returns
ddp_emits(i) == global_rank[i] = 0
\* the rank test of the TPU launcher: `trainer.strategy.local_rank != 0` returns
tpu_emits(i) == local_rank[i] = 0

\* DDP: if trainer.strategy.global_rank != 0: return
ddp_collect_rank_check(i) ==
    /\ launcher = "ddp"
    /\ pc[i] = "rank_check"
    /\ IF ddp_emits(i)
       THEN /\ pc' = [pc EXCEPT ![i] = "save"]
            /\ UNCHANGED <<results, built>>
       ELSE /\ pc' = [pc EXCEPT ![i] = "put"]
            /\ results' = [results EXCEPT ![i] = None]
            /\ built' = [built EXCEPT ![i] = "nothing"]
    /\ UNCHANGED <<rtvars, cvars, env_master_port, local_rank, global_rank, weights_path, sd_count,
                   save_count, return_queue, put_log, temp_ckpt, ovars, hvars>>

\* the step that follows the save of the last weights in each launcher
after_save == IF launcher = "ddp" THEN "extra" ELSE "rank_check"

\* mutant: the last weights are saved whatever the trainer is doing
collect_save_always(i) ==
    /\ pc[i] = "save"
    /\ weights_path' = [weights_path EXCEPT ![i] = TempPath]
    /\ temp_ckpt' = WorkerStateDict
    /\ save_count' = [save_count EXCEPT ![i] = @ + 1]
    /\ pc' = [pc EXCEPT ![i] = after_save]
    /\ UNCHANGED <<rtvars, cvars, env_master_port, local_rank, global_rank, results, sd_count, built,
                   return_queue, put_log, ovars, hvars>>

\* weights_path = None; if trainer.state.fn == TrainerFn.FITTING: save_checkpoint
collect_save(i) ==
    /\ pc[i] = "save"
    /\ IF fitting
       THEN /\ weights_path' = [weights_path EXCEPT ![i] = TempPath]
            /\ temp_ckpt' = WorkerStateDict
            /\ save_count' = [save_count EXCEPT ![i] = @ + 1]
       ELSE /\ weights_path' = [weights_path EXCEPT ![i] = None]
            /\ UNCHANGED <<temp_ckpt, save_count>>
    /\ pc' = [pc EXCEPT ![i] = after_save]
    /\ UNCHANGED <<rtvars, cvars, env_master_port, local_rank, global_rank, results, sd_count, built,
                   return_queue, put_log, ovars, hvars>>

\* TPU: if trainer.strategy.local_rank != 0: return
tpu_collect_rank_check(i) ==
    /\ launcher = "tpu"
    /\ pc[i] = "rank_check"
    /\ IF tpu_emits(i)
       THEN /\ pc' = [pc EXCEPT ![i] = "extra"]
            /\ UNCHANGED <<results, built>>
       ELSE /\ pc' = [pc EXCEPT ![i] = "put"]
            /\ results' = [results EXCEPT ![i] = None]
            /\ built' = [built EXCEPT ![i] = "nothing"]
    /\ UNCHANGED <<rtvars, cvars, env_master_port, local_rank, global_rank, weights_path, sd_count,
                   save_count, return_queue, put_log, temp_ckpt, ovars, hvars>>

\* extra = _FakeQueue(); the overridden add_to_queue (k entries), then self.add_to_queue
build_extra(i, overridden, k, is_dict) ==
    add_to_queue(WorkerMetrics(i),
                 IF overridden THEN [n \in 1 .. k |-> LegacyEntry(is_dict, n)] ELSE <<>>)

\* mutant: the best model path is not taken along
SpawnOutput_no_best_path(i, extra) ==
    [kind |-> "SpawnOutput",
     best_model_path |-> None,
     weights_path |-> weights_path[i],
     trainer_state |-> WorkerState,
     trainer_results |-> results[i],
     extra |-> extra]

\* _SpawnOutput(best_model_path, weights_path, trainer.state, results, extra)
SpawnOutput(i, extra) ==
    [kind |-> "SpawnOutput",
     best_model_path |-> IF has_ckpt_cb THEN WorkerBestPath ELSE None,
     weights_path |-> weights_path[i],
     trainer_state |-> WorkerState,
     trainer_results |-> results[i],
     extra |-> extra]

\* the metrics are queued and the _SpawnOutput returned
collect_extra(i) ==
    /\ pc[i] = "extra"
    /\ \E overridden \in BOOLEAN, k \in 0 .. MaxLegacy, is_dict \in BOOLEAN :
          /\ add_overridden' = overridden
          /\ legacy_added' = IF overridden THEN k ELSE 0
          /\ results' = [results EXCEPT ![i] = SpawnOutput(i, build_extra(i, overridden, k, is_dict))]
    /\ built' = [built EXCEPT ![i] = "SpawnOutput"]
    /\ pc' = [pc EXCEPT ![i] = "put"]
    /\ UNCHANGED <<rtvars, cvars, env_master_port, local_rank, global_rank, weights_path, sd_count,
                   save_count, return_queue, put_log, temp_ckpt, ovars, legacy_popped, get_overridden>>

\* ----------------------------------------------- the end of _wrapped_function
\* mutant: every worker puts its results
is_result_producer_any(i) == TRUE
\* mutant: the last worker of the node is taken for the producer
is_result_producer_last(i) == local_rank[i] = num_processes - 1
\* if strategy.local_rank == 0
is_result_producer(i) == local_rank[i] = 0
\* mutant: the TPU worker returns after the put, without the barrier
after_put_no_barrier == "exited"
\* the step that follows the put in each launcher
after_put == IF launcher = "ddp" THEN "exited" ELSE "barrier"

\* if strategy.local_rank == 0: return_queue.put(move_data_to_device(results, "cpu"))
wrapped_function_put(i) ==
    /\ pc[i] = "put"
    /\ IF is_result_producer(i)
       THEN /\ return_queue' = Append(return_queue, move_data_to_device(results[i]))
            /\ put_log' = Append(put_log, i)
       ELSE UNCHANGED <<return_queue, put_log>>
    /\ pc' = [pc EXCEPT ![i] = after_put]
    /\ UNCHANGED <<rtvars, cvars, env_master_port, local_rank, global_rank, results, weights_path,
                   sd_count, save_count, built, temp_ckpt, ovars, hvars>>

\* strategy.barrier("end-process"): every worker of the group has arrived
all_arrived == \A j \in Workers : pc[j] \in {"barrier", "grace", "sleep", "exited"}

\* TPU: a worker waiting at the barrier passes it
tpu_barrier_pass(i) ==
    /\ launcher = "tpu"
    /\ pc[i] = "barrier"
    /\ all_arrived
    /\ pc' = [pc EXCEPT ![i] = "grace"]
    /\ UNCHANGED <<rtvars, cvars, env_master_port, local_rank, global_rank, results, weights_path,
                   sd_count, save_count, built, return_queue, put_log, temp_ckpt, ovars, hvars>>

\* TPU: if strategy.local_rank == 0: time.sleep(2); the others return at once
tpu_grace(i) ==
    /\ pc[i] = "grace"
    /\ pc' = [pc EXCEPT ![i] = IF is_result_producer(i) THEN "sleep" ELSE "exited"]
    /\ UNCHANGED <<rtvars, cvars, env_master_port, local_rank, global_rank, results, weights_path,
                   sd_count, save_count, built, return_queue, put_log, temp_ckpt, ovars, hvars>>

\* TPU: the sleep of the local-rank-0 worker ends and the worker returns
tpu_sleep_done(i) ==
    /\ pc[i] = "sleep"
    /\ pc' = [pc EXCEPT ![i] = "exited"]
    /\ UNCHANGED <<rtvars, cvars, env_master_port, local_rank, global_rank, results, weights_path,
                   sd_count, save_count, built, return_queue, put_log, temp_ckpt, ovars, hvars>>

\* ----------------------------------------------- launch, the orchestrator
\* mutant: spawn is called with join=False and returns at once
spawn_not_joined == TRUE
\* mutant: spawn waits for the local-rank-0 worker only
spawn_joined_producer_only == \E i \in Workers : pc[i] = "exited" /\ local_rank[i] = 0
\* mp.spawn / xmp.spawn join their processes: spawn returns once every worker has exited
spawn_joined == \A i \in Workers : pc[i] = "exited"

\* spawn returns to launch
spawn_join ==
    /\ opc = "spawn"
    /\ spawn_joined
    /\ opc' = "get"
    /\ UNCHANGED <<rtvars, cvars, env_master_port, wvars, return_queue, put_log, temp_ckpt,
                   spawn_output, retval, error, trainer, hvars>>

\* mutant: spawn swallows the failure of a worker and returns
spawn_raise_swallowed ==
    /\ opc = "spawn"
    /\ \E i \in Workers : pc[i] = "failed"
    /\ pc' = [i \in Procs |-> IF i \in Workers /\ pc[i] \notin {"exited", "failed"}
                              THEN "terminated" ELSE pc[i]]
    /\ opc' = "get"
    /\ UNCHANGED <<rtvars, cvars, env_master_port, local_rank, global_rank, results, weights_path,
                   sd_count, save_count, built, return_queue, put_log, temp_ckpt,
                   spawn_output, retval, error, trainer, hvars>>

\* a worker ended with an exception: spawn terminates the others and raises in launch
spawn_raise ==
    /\ opc = "spawn"
    /\ \E i \in Workers : pc[i] = "failed"
    /\ pc' = [i \in Procs |-> IF i \in Workers /\ pc[i] \notin {"exited", "failed"}
                              THEN "terminated" ELSE pc[i]]
    /\ opc' = "raised"
    /\ error' = "ProcessRaisedException"
    /\ UNCHANGED <<rtvars, cvars, env_master_port, local_rank, global_rank, results, weights_path,
                   sd_count, save_count, built, return_queue, put_log, temp_ckpt,
                   spawn_output, retval, trainer, hvars>>

\* mutant: Recovery starts at the load and never transfers the best model path
after_get_skip_best_path == IF has_trainer THEN "recover_load" ELSE "returned"
\* where launch goes with the value it has read
after_get == IF has_trainer THEN "recover_best" ELSE "returned"

\* spawn_output = return_queue.get(); if trainer is None: return spawn_output
launch_get ==
    /\ opc = "get"
    /\ return_queue # <<>>
    /\ spawn_output' = Head(return_queue)
    /\ return_queue' = Tail(return_queue)
    /\ opc' = after_get
    /\ retval' = IF has_trainer THEN retval ELSE Head(return_queue)
    /\ UNCHANGED <<rtvars, cvars, env_master_port, wvars, put_log, temp_ckpt, error, trainer, hvars>>

\* if trainer.checkpoint_callback: ...best_model_path = spawn_output.best_model_path
recover_best_model_path ==
    /\ opc = "recover_best"
    /\ IF has_ckpt_cb
       THEN IF spawn_output.kind = "SpawnOutput"
            THEN /\ trainer' = [trainer EXCEPT !.best_model_path = spawn_output.best_model_path]
                 /\ opc' = "recover_load"
                 /\ UNCHANGED error
            ELSE /\ opc' = "raised"
                 /\ error' = "AttributeError"
                 /\ UNCHANGED trainer
       ELSE /\ opc' = "recover_load"
            /\ UNCHANGED <<trainer, error>>
    /\ UNCHANGED <<rtvars, cvars, env_master_port, wvars, return_queue, put_log, temp_ckpt,
                   spawn_output, retval, hvars>>

\* if spawn_output.weights_path is not None: load_checkpoint, load_state_dict
recover_load ==
    /\ opc = "recover_load"
    /\ IF spawn_output.kind # "SpawnOutput"
       THEN /\ opc' = "raised"
            /\ error' = "AttributeError"
            /\ UNCHANGED trainer
       ELSE IF spawn_output.weights_path = None
            THEN /\ opc' = "recover_state"
                 /\ UNCHANGED <<trainer, error>>
            ELSE \E load_ok \in BOOLEAN :
                    IF load_ok /\ temp_ckpt # Absent
                    THEN /\ trainer' = [trainer EXCEPT !.params = temp_ckpt]
                         /\ opc' = "recover_remove"
                         /\ UNCHANGED error
                    ELSE /\ opc' = "raised"
                         /\ error' = "LoadError"
                         /\ UNCHANGED trainer
    /\ UNCHANGED <<rtvars, cvars, env_master_port, wvars, return_queue, put_log, temp_ckpt,
                   spawn_output, retval, hvars>>

\* mutant: Recovery leaves the temporary checkpoint behind
recover_remove_skipped ==
    /\ opc = "recover_remove"
    /\ opc' = "recover_state"
    /\ UNCHANGED <<rtvars, cvars, env_master_port, wvars, return_queue, put_log, temp_ckpt,
                   spawn_output, retval, error, trainer, hvars>>

\* trainer.strategy.checkpoint_io.remove_checkpoint(spawn_output.weights_path)
recover_remove ==
    /\ opc = "recover_remove"
    /\ temp_ckpt' = Absent
    /\ opc' = "recover_state"
    /\ UNCHANGED <<rtvars, cvars, env_master_port, wvars, return_queue, put_log,
                   spawn_output, retval, error, trainer, hvars>>

\* trainer.state = spawn_output.trainer_state
recover_state ==
    /\ opc = "recover_state"
    /\ trainer' = [trainer EXCEPT !.state = spawn_output.trainer_state]
    /\ opc' = "recover_legacy_get"
    /\ UNCHANGED <<rtvars, cvars, env_master_port, wvars, return_queue, put_log, temp_ckpt,
                   spawn_output, retval, error, hvars>>

\* if is_overridden("get_from_queue", ...): the override pops j entries of extra
recover_legacy_get ==
    /\ opc = "recover_legacy_get"
    /\ \E overridden \in BOOLEAN, j \in 0 .. MaxLegacy :
          /\ get_overridden' = overridden
          /\ IF overridden /\ j > Len(spawn_output.extra)
             THEN /\ opc' = "raised"
                  /\ error' = "IndexError"
                  /\ legacy_popped' = Len(spawn_output.extra)
                  /\ spawn_output' = [spawn_output EXCEPT !.extra = <<>>]
             ELSE /\ opc' = "recover_default_get"
                  /\ legacy_popped' = IF overridden THEN j ELSE 0
                  /\ spawn_output' = [spawn_output EXCEPT !.extra =
                        IF overridden THEN SubSeq(@, j + 1, Len(@)) ELSE @]
                  /\ UNCHANGED error
    /\ UNCHANGED <<rtvars, cvars, env_master_port, wvars, return_queue, put_log, temp_ckpt,
                   retval, trainer, legacy_added, add_overridden>>

\* DDPSpawnLauncher.get_from_queue: the popped mapping, as tensors, merged into the metrics
get_from_queue(callback_metrics, queue) ==
    dict_update(callback_metrics, to_tensor_dict(FakeQueue_head(queue).dict))

\* self.get_from_queue(trainer, spawn_output.extra); return spawn_output.trainer_results
recover_default_get ==
    /\ opc = "recover_default_get"
    /\ IF FakeQueue_empty(spawn_output.extra)
       THEN /\ opc' = "raised"
            /\ error' = "IndexError"
            /\ UNCHANGED <<spawn_output, trainer, retval>>
       ELSE /\ spawn_output' = [spawn_output EXCEPT !.extra = FakeQueue_rest(@)]
            /\ IF FakeQueue_head(spawn_output.extra).is_dict
               THEN /\ trainer' = [trainer EXCEPT !.callback_metrics =
                                      get_from_queue(@, spawn_output.extra)]
                    /\ opc' = "returned"
                    /\ retval' = spawn_output.trainer_results
                    /\ UNCHANGED error
               ELSE /\ opc' = "raised"
                    /\ error' = "TypeError"
                    /\ UNCHANGED <<trainer, retval>>
    /\ UNCHANGED <<rtvars, cvars, env_master_port, wvars, return_queue, put_log, temp_ckpt, hvars>>

Next ==
    \/ launch_start
    \/ \E i \in Workers : worker_setup(i)
    \/ \E i \in Workers : worker_function(i)
    \/ \E i \in Workers : worker_raises(i)
    \/ \E i \in Workers : worker_hangs(i)
    \/ \E i \in Workers : collect_state_dict(i)
    \/ \E i \in Workers : ddp_collect_rank_check(i)
    \/ \E i \in Workers : collect_save(i)
    \/ \E i \in Workers : tpu_collect_rank_check(i)
    \/ \E i \in Workers : collect_extra(i)
    \/ \E i \in Workers : wrapped_function_put(i)
    \/ \E i \in Workers : tpu_barrier_pass(i)
    \/ \E i \in Workers : tpu_grace(i)
    \/ \E i \in Workers : tpu_sleep_done(i)
    \/ spawn_join
    \/ spawn_raise
    \/ launch_get
    \/ recover_best_model_path
    \/ recover_load
    \/ recover_remove
    \/ recover_state
    \/ recover_legacy_get
    \/ recover_default_get

Spec == Init /\ [][Next]_vars

\* the processes of a launch are scheduled: a launch that can take a step takes one
FairSpec == Init /\ [][Next]_vars /\ WF_vars(Next)

\* ----------------------------------------------- the default pair on its own
\* the values a metric can hold
MetricValues ==
    UNION {{Tensor("cuda", v), Tensor("cpu", v), NdArray(v), Float(v)} : v \in 1 .. MaxVal}
\* the mappings of string keys to such values
MetricMappings == UNION {[keys -> MetricValues] : keys \in SUBSET {"acc", "loss"}}

RoundTripInit ==
    /\ launcher = "ddp"
    /\ num_processes = 1
    /\ node_rank = 0
    /\ has_trainer = TRUE
    /\ fitting = FALSE
    /\ has_ckpt_cb = FALSE
    /\ fn_device = "cpu"
    /\ LaunchIdle
    /\ rt_pc = "start"
    /\ rt_metrics \in MetricMappings
    /\ rt_prev \in {<<>>, InitialTrainer.callback_metrics}
    /\ rt_queue = <<>>
    /\ rt_out = rt_prev

\* self.add_to_queue(trainer, queue) on an empty _FakeQueue
round_trip_add ==
    /\ rt_pc = "start"
    /\ rt_queue' = add_to_queue(rt_metrics, rt_queue)
    /\ rt_pc' = "added"
    /\ UNCHANGED <<rt_metrics, rt_prev, rt_out, cvars, env_master_port, wvars, return_queue,
                   put_log, temp_ckpt, ovars, hvars>>

\* self.get_from_queue(trainer, queue)
round_trip_get ==
    /\ rt_pc = "added"
    /\ ~FakeQueue_empty(rt_queue)
    /\ rt_out' = get_from_queue(rt_prev, rt_queue)
    /\ rt_queue' = FakeQueue_rest(rt_queue)
    /\ rt_pc' = "got"
    /\ UNCHANGED <<rt_metrics, rt_prev, cvars, env_master_port, wvars, return_queue,
                   put_log, temp_ckpt, ovars, hvars>>

RoundTripNext == round_trip_add \/ round_trip_get

RoundTripSpec == RoundTripInit /\ [][RoundTripNext]_vars

\* ----------------------------------------------- vocabulary of the properties
RecoverPcs == {"recover_best", "recover_load", "recover_remove", "recover_state",
               "recover_legacy_get", "recover_default_get"}
\* return_queue.get() of launch has returned
ReadDone == opc \in RecoverPcs \cup {"returned"} \/ (opc = "raised" /\ error # "ProcessRaisedException")
\* every worker ran _wrapped_function to its end
AllCompleted == opc # "idle" /\ \A i \in Workers : pc[i] = "exited"
\* worker i has left the "end-process" barrier behind
PassedBarrier(i) == pc[i] \in {"grace", "sleep", "exited"}
\* launch returned a value to a caller that passed a trainer / passed none
ReturnedWithTrainer == opc = "returned" /\ has_trainer
ReturnedRaw == opc = "returned" /\ ~has_trainer
\* a value as it arrives after tensor -> numpy -> tensor: the number is kept, arrays are CPU tensors
AsRestored(v) == IF v.kind \in {"tensor", "ndarray"} THEN [kind |-> "tensor", dev |-> "cpu", val |-> v.val] ELSE v

\* C1: at most one value is ever put on return_queue, only a worker whose local rank
\* is 0 puts, and once every worker has run _wrapped_function to its end exactly one
\* value has been put (both launchers, every num_processes).
C1_SinglePut ==
    /\ Len(put_log) <= 1
    /\ \A n \in DOMAIN put_log : local_rank[put_log[n]] = 0
    /\ AllCompleted => Len(put_log) = 1

C1_Witness ==
    /\ AllCompleted
    /\ num_processes >= 2
    /\ Len(put_log) = 1
    /\ \E i \in Workers : local_rank[i] # 0 /\ pc[i] = "exited"

\* C2: with a trainer, the one value launch reads from return_queue is a fully
\* populated _SpawnOutput, never None, whatever the ranks of the workers are.
C2_ReadsSpawnOutput ==
    (has_trainer /\ ReadDone) => (spawn_output.kind = "SpawnOutput" /\ return_queue = <<>>)

\* C3 as claimed: in the TPU launcher the read of return_queue has completed before
\* any worker process has terminated.
C3_ReadBeforeAnyExit ==
    (launcher = "tpu" /\ \E i \in Workers : pc[i] = "exited") => ReadDone

\* C3 amended: in the TPU launcher the read of return_queue completes only after
\* every worker has exited (xmp.spawn joins), and the value it reads was put by the
\* local-rank-0 worker before that worker passed the barrier.
C3_ReadAfterAllExit ==
    (launcher = "tpu" /\ ReadDone) =>
        /\ \A i \in Workers : pc[i] = "exited"
        /\ Len(put_log) = 1

C3_Witness ==
    /\ launcher = "tpu"
    /\ num_processes >= 2
    /\ opc = "returned"

\* C4: in the TPU launcher the local-rank-0 worker has put its value before any
\* worker passes the "end-process" barrier; that worker starts its sleep only from
\* behind the barrier and returns only from the sleep.
C4_PutBeforeBarrier ==
    /\ [](launcher = "tpu" => \A i \in Workers : PassedBarrier(i) => Len(put_log) = 1)
    /\ [][launcher = "tpu" =>
            \A i \in Workers :
                /\ (pc[i] # "grace" /\ pc'[i] = "grace") => (pc[i] = "barrier" /\ Len(put_log) = 1)
                /\ (pc[i] # "sleep" /\ pc'[i] = "sleep") => (pc[i] = "grace" /\ local_rank[i] = 0)
                /\ (local_rank[i] = 0 /\ pc[i] # "exited" /\ pc'[i] = "exited") => pc[i] = "sleep"]_vars

C4_Witness ==
    /\ launcher = "tpu"
    /\ num_processes >= 2
    /\ \E i \in Workers : local_rank[i] = 0 /\ pc[i] = "sleep"
    /\ \E i \in Workers : local_rank[i] # 0 /\ pc[i] = "grace"

\* Recovery ran on a _SpawnOutput that names a temporary checkpoint and is over
RecoveryOverWithWeights ==
    /\ has_trainer
    /\ opc \in {"returned", "raised"}
    /\ spawn_output.kind = "SpawnOutput"
    /\ spawn_output.weights_path # None

\* C5: when weights_path is present, once Recovery is over the temporary checkpoint
\* is gone exactly if the load succeeded (the live model holds the loaded weights);
\* after a failed load the file is still there, the live model keeps its parameters
\* and launch has raised.
C5_RemoveIffLoaded ==
    RecoveryOverWithWeights =>
        /\ (temp_ckpt = Absent) <=> (trainer.params = WorkerStateDict)
        /\ (error = "LoadError") <=> (trainer.params = InitialTrainer.params)
        /\ error = "LoadError" => (temp_ckpt = WorkerStateDict /\ opc = "raised" /\ retval = None)

C5_Witness ==
    /\ RecoveryOverWithWeights
    /\ error = "LoadError"
    /\ temp_ckpt # Absent

\* C6 as claimed: after Recovery completes spawn_output.extra is empty, whatever the
\* legacy hooks are and do.
C6_ExtraDrained == ReturnedWithTrainer => FakeQueue_empty(spawn_output.extra)

\* C6 amended: after Recovery completes spawn_output.extra holds as many entries as
\* the legacy add_to_queue appended beyond those the legacy get_from_queue popped
\* (none counts for a hook that is not overridden); it is empty exactly when the two
\* numbers are equal, as when neither hook is overridden.
C6_ExtraLeftover ==
    ReturnedWithTrainer =>
        /\ Len(spawn_output.extra) = legacy_added - legacy_popped
        /\ (~add_overridden /\ ~get_overridden) => FakeQueue_empty(spawn_output.extra)

C6_Witness ==
    /\ ReturnedWithTrainer
    /\ add_overridden /\ get_overridden
    /\ legacy_added = 2 /\ legacy_popped = 2
    /\ FakeQueue_empty(spawn_output.extra)

\* C7 as claimed: after launch returns, trainer.callback_metrics holds every key of
\* the producing worker's metrics with that worker's (numerical) value and no entry
\* that a legacy hook contributed, whatever the legacy hooks are and do.
C7_MetricsAsProduced ==
    ReturnedWithTrainer =>
        /\ \A key \in DOMAIN WorkerMetrics(put_log[1]) :
              /\ key \in DOMAIN trainer.callback_metrics
              /\ trainer.callback_metrics[key].val = WorkerMetrics(put_log[1])[key].val
        /\ "legacy" \notin DOMAIN trainer.callback_metrics

\* C7 amended: when the legacy get_from_queue pops as many entries as the legacy
\* add_to_queue appended (as when neither is overridden), after launch returns
\* trainer.callback_metrics holds every key of the producing worker's metrics with
\* that worker's number, tensors and numpy arrays arriving as CPU tensors, and keeps
\* its other entries.
C7_MetricsRestored ==
    (ReturnedWithTrainer /\ legacy_added = legacy_popped) =>
        /\ DOMAIN trainer.callback_metrics =
              DOMAIN InitialTrainer.callback_metrics \cup DOMAIN WorkerMetrics(put_log[1])
        /\ \A key \in DOMAIN WorkerMetrics(put_log[1]) :
              trainer.callback_metrics[key] = AsRestored(WorkerMetrics(put_log[1])[key])
        /\ \A key \in DOMAIN InitialTrainer.callback_metrics \ DOMAIN WorkerMetrics(put_log[1]) :
              trainer.callback_metrics[key] = InitialTrainer.callback_metrics[key]

C7_Witness ==
    /\ ReturnedWithTrainer
    /\ add_overridden /\ get_overridden
    /\ legacy_added = 1 /\ legacy_popped = 1
    /\ trainer.callback_metrics["acc"] # InitialTrainer.callback_metrics["acc"]

\* C8 as claimed: without a trainer launch returns exactly what the user function
\* returned in the local-rank-0 worker.
C8_RawUnmodified == ReturnedRaw => retval = UserResult(put_log[1])

\* C8 amended: without a trainer launch returns what the user function returned in
\* the local-rank-0 worker moved to host memory (the same value when it was already
\* on the CPU); no other worker's value is returned and Recovery does not run.
C8_RawOnHost ==
    /\ ~has_trainer => (opc \notin RecoverPcs /\ trainer = InitialTrainer)
    /\ ReturnedRaw =>
          /\ local_rank[put_log[1]] = 0
          /\ retval = [UserResult(put_log[1]) EXCEPT !.dev = "cpu"]
          /\ fn_device = "cpu" => retval = UserResult(put_log[1])
          /\ \A i \in Workers : local_rank[i] # 0 => retval.val # UserResult(i).val

C8_Witness ==
    /\ ReturnedRaw
    /\ num_processes >= 2
    /\ fn_device = "cuda"

\* C9: the orchestrator's trainer (best_model_path, parameters, state,
\* callback_metrics) changes only in a step of Recovery, after the read of
\* return_queue and with every worker exited; no step of a worker changes it.
C9_MutationAfterRendezvous ==
    [][trainer' # trainer =>
          /\ opc \in RecoverPcs
          /\ ReadDone
          /\ \A i \in Workers : pc[i] = "exited"
          /\ pc' = pc]_vars

C9_Witness ==
    /\ ReturnedWithTrainer
    /\ num_processes >= 2
    /\ trainer.state # InitialTrainer.state
    /\ trainer.callback_metrics # InitialTrainer.callback_metrics

\* C10 as claimed: when fitting with a trainer, a worker for which
\* _collect_rank_zero_results returns nothing calls no save_checkpoint, in both launchers.
C10_OnlyBuilderSaves ==
    (has_trainer /\ fitting) =>
        \A i \in Workers : built[i] = "nothing" => save_count[i] = 0

\* C10 amended: when fitting with a trainer, in the DDP launcher a worker for which
\* _collect_rank_zero_results returns nothing calls no save_checkpoint; in the TPU
\* launcher every worker calls save_checkpoint once before the rank test, also the
\* workers that then return nothing.
C10_SaveByLauncher ==
    (has_trainer /\ fitting) =>
        \A i \in Workers :
            /\ (launcher = "ddp" /\ built[i] = "nothing") => save_count[i] = 0
            /\ (launcher = "ddp" /\ built[i] = "SpawnOutput") => save_count[i] = 1
            /\ (launcher = "tpu" /\ built[i] # "not_called") => save_count[i] = 1

C10_Witness ==
    /\ has_trainer /\ fitting
    /\ \E i, j \in Workers :
          /\ built[i] = "nothing" /\ save_count[i] = 0
          /\ built[j] = "SpawnOutput" /\ save_count[j] = 1

\* C11: when the trainer is not fitting, in both launchers no worker saves a
\* temporary checkpoint, every _SpawnOutput built, queued or read has weights_path
\* None, and Recovery neither loads nor removes a checkpoint.
C11_NoCheckpointUnlessFitting ==
    ~fitting =>
        /\ \A i \in Workers :
              /\ save_count[i] = 0
              /\ weights_path[i] = None
              /\ results[i].kind = "SpawnOutput" => results[i].weights_path = None
        /\ \A n \in DOMAIN return_queue :
              return_queue[n].kind = "SpawnOutput" => return_queue[n].weights_path = None
        /\ spawn_output.kind = "SpawnOutput" => spawn_output.weights_path = None
        /\ temp_ckpt = Absent
        /\ opc # "recover_remove"
        /\ error # "LoadError"
        /\ trainer.params = InitialTrainer.params

C11_Witness ==
    /\ ~fitting
    /\ ReturnedWithTrainer
    /\ launcher = "tpu"
    /\ num_processes >= 2

\* the worker that would put (process index 0, local rank 0) ended with an exception
ProducerFailed == opc # "idle" /\ pc[0] = "failed"

\* C12 as claimed: when the result-producing worker fails before its put, nothing is
\* put and launch neither returns nor delivers an error to its caller.
C12_BlocksForever ==
    ProducerFailed => (put_log = <<>> /\ opc \notin {"returned", "raised"})

\* C12 amended: when the result-producing worker fails before its put, nothing is
\* put and launch returns no value, but it does not block: it never reaches
\* return_queue.get(), and it ends only by raising the ProcessRaisedException of spawn.
C12_RaisesInLaunch ==
    ProducerFailed =>
        /\ put_log = <<>>
        /\ return_queue = <<>>
        /\ opc \in {"spawn", "raised"}
        /\ opc = "raised" => error = "ProcessRaisedException"
        /\ retval = None

C12_Witness ==
    /\ ProducerFailed
    /\ num_processes >= 2
    /\ opc = "raised"

C14_RecoveredFields ==
    ReturnedWithTrainer =>
        /\ retval = spawn_output.trainer_results
        /\ retval = [UserResult(put_log[1]) EXCEPT !.dev = "cpu"]
        /\ trainer.state = WorkerState
        /\ has_ckpt_cb => trainer.best_model_path = WorkerBestPath
        /\ ~has_ckpt_cb => trainer.best_model_path = None

C14_Witness ==
    /\ ReturnedWithTrainer
    /\ has_ckpt_cb
    /\ fitting
    /\ trainer.best_model_path # InitialTrainer.best_model_path

\* C15: once a launch with a fitting trainer has returned, the temporary checkpoint
\* does not exist, for both launchers and every order of the workers' saves.
C15_NoArtifactAfterReturn ==
    (ReturnedWithTrainer /\ fitting) => temp_ckpt = Absent

C15_Witness ==
    /\ ReturnedWithTrainer /\ fitting
    /\ launcher = "tpu"
    /\ \A i \in Workers : save_count[i] = 1
    /\ num_processes >= 2

\* C16 as claimed: add_to_queue on an empty _FakeQueue followed by get_from_queue
\* leaves the queue empty and the metrics with exactly the collected keys, each with
\* a value equal to the collected one, on top of the previous content.
C16_RoundTripEqual ==
    rt_pc = "got" =>
        /\ FakeQueue_empty(rt_queue)
        /\ DOMAIN rt_out = DOMAIN rt_prev \cup DOMAIN rt_metrics
        /\ \A key \in DOMAIN rt_metrics : rt_out[key] = rt_metrics[key]
        /\ \A key \in DOMAIN rt_prev \ DOMAIN rt_metrics : rt_out[key] = rt_prev[key]

\* C16 amended: the same, with values that are numerically equal: a tensor or a
\* numpy array comes back as a CPU tensor holding the same number, any other value
\* comes back as it was.
C16_RoundTripNumeric ==
    rt_pc = "got" =>
        /\ FakeQueue_empty(rt_queue)
        /\ DOMAIN rt_out = DOMAIN rt_prev \cup DOMAIN rt_metrics
        /\ \A key \in DOMAIN rt_metrics :
              /\ rt_out[key].val = rt_metrics[key].val
              /\ rt_out[key] = AsRestored(rt_metrics[key])
              /\ rt_metrics[key].kind \notin {"tensor", "ndarray"} => rt_out[key] = rt_metrics[key]
        /\ \A key \in DOMAIN rt_prev \ DOMAIN rt_metrics : rt_out[key] = rt_prev[key]

C16_Witness ==
    /\ rt_pc = "got"
    /\ DOMAIN rt_metrics = {"acc", "loss"}
    /\ rt_metrics["acc"].kind = "tensor" /\ rt_metrics["acc"].dev = "cuda"
    /\ rt_metrics["loss"].kind = "ndarray"
    /\ rt_prev # <<>>
    /\ rt_out["acc"] # rt_prev["acc"]

\* C17: in the TPU launcher, when the local-rank-0 worker has exited every other
\* worker has exited before.
C17_RankZeroExitsLast ==
    launcher = "tpu" =>
        \A i \in Workers : (local_rank[i] = 0 /\ pc[i] = "exited") =>
            \A j \in Workers : pc[j] = "exited"

\* C18: a launch whose workers neither fail nor hang, whose checkpoint load succeeds
\* (and whose legacy hooks leave the default get_from_queue its mapping) eventually
\* returns to its caller.
C18_EventuallyReturns ==
    <>(\/ opc = "returned"
       \/ \E i \in Workers : pc[i] \in {"failed", "hung", "terminated"}
       \/ error \in {"LoadError", "IndexError", "TypeError"})

\* C19: after a failed checkpoint load the checkpoint callback already holds the
\* best_model_path of spawn_output, while trainer.state, trainer.callback_metrics
\* and the model's parameters are as before the launch and nothing was popped from
\* spawn_output.extra.
C19_PartialRecovery ==
    error = "LoadError" =>
        /\ has_ckpt_cb => /\ trainer.best_model_path = spawn_output.best_model_path
                          /\ trainer.best_model_path = WorkerBestPath
        /\ trainer.state = InitialTrainer.state
        /\ trainer.callback_metrics = InitialTrainer.callback_metrics
        /\ trainer.params = InitialTrainer.params
        /\ legacy_popped = 0
        /\ Len(spawn_output.extra) = legacy_added + 1

C19_Witness ==
    /\ error = "LoadError"
    /\ has_ckpt_cb
    /\ legacy_added = 2
    /\ trainer.best_model_path # InitialTrainer.best_model_path

\* C20: with a trainer every worker calls state_dict() once, and has called it when
\* it comes to the rank test of _collect_rank_zero_results, in both launchers.
C20_StateDictOnce ==
    /\ has_trainer =>
          \A i \in Workers :
              /\ pc[i] \in {"setup", "function", "state_dict"} => sd_count[i] = 0
              /\ pc[i] \in {"rank_check", "save", "extra", "put", "barrier", "grace", "sleep", "exited"}
                    => sd_count[i] = 1
              /\ built[i] # "not_called" => sd_count[i] = 1
    /\ ~has_trainer => \A i \in Workers : sd_count[i] = 0

C20_Witness ==
    /\ has_trainer
    /\ \E i, j \in Workers :
          /\ built[i] = "nothing" /\ sd_count[i] = 1 /\ pc[i] = "exited"
          /\ built[j] = "SpawnOutput" /\ sd_count[j] = 1

====
